---- MODULE Spec2Model ----
(***************************************************************************)
(* A model of scripts/generate_performance_report.py: the benchmark report *)
(* generator of PICORadar.  JSON values are records tagged by "kind"; a    *)
(* Python call that may raise returns either Return(v) or Raised.          *)
(***************************************************************************)
EXTENDS Integers, Sequences, FiniteSets, TLC

\* ------------------------------------------------------------ JSON values

\* A key that the mapping does not hold.
Absent == [kind |-> "absent"]

\* JSON null (Python None).
JNull == [kind |-> "null"]

\* A number, kept as the exact fraction num/den with den > 0.
Frac(n, d) == [kind |-> "num", num |-> n, den |-> d]

JNum(n) == Frac(n, 1)

\* A string, abstracted to the set of classifier keywords it contains.
JStr(kws) == [kind |-> "str", has |-> kws]

JList(items) == [kind |-> "list", items |-> items]

\* The top-level mapping of a benchmark results file.
JData(benchmarks, context) ==
    [kind |-> "dict", benchmarks |-> benchmarks, context |-> context]

\* One element of 'benchmarks'.
Benchmark(name, real_time, cpu_time, iterations, items_per_second) ==
    [kind |-> "dict", name |-> name, real_time |-> real_time,
     cpu_time |-> cpu_time, iterations |-> iterations,
     items_per_second |-> items_per_second]

\* dict.get(key, default)
Get(v, default) == IF v.kind = "absent" THEN default ELSE v

\* Python truthiness of a loaded value ("not self.data").
Truthy(v) ==
    CASE v.kind = "null" -> FALSE
      [] v.kind = "num"  -> v.num # 0
      [] v.kind = "list" -> v.items # <<>>
      [] v.kind = "dict" -> v.benchmarks.kind # "absent" \/ v.context.kind # "absent"
      [] OTHER -> TRUE

\* The outcome of a call: a returned value, or an exception.
Return(v) == [ok |-> TRUE, val |-> v]

Raised == [ok |-> FALSE]

\* ------------------------------------------------------------ arithmetic

RECURSIVE Gcd(_, _)
Gcd(a, b) == IF b = 0 THEN a ELSE Gcd(b, a % b)

Normal(n, d) == LET g == Gcd(n, d) IN Frac(n \div g, d \div g)

FracAdd(a, b) == Normal(a.num * b.den + b.num * a.den, a.den * b.den)

FracDiv(a, k) == Normal(a.num, a.den * k)

FracLess(a, b) == a.num * b.den < b.num * a.den

RECURSIVE FracSum(_)
FracSum(s) == IF s = <<>> THEN JNum(0) ELSE FracAdd(Head(s), FracSum(Tail(s)))

\* ------------------------------------------------------------ format_time

Thousand == 1000

Million == 1000000

Billion == 1000000000

\* The text f"{time_ns/divisor:.2f} {unit}", kept as its three components.
TimeText(time_ns, divisor, unit) ==
    [kind |-> "text", value |-> time_ns, divisor |-> divisor, unit |-> unit]

\* format_time with every threshold compared inclusively.
format_time_Inclusive(time_ns) ==
    IF time_ns.kind # "num" THEN Raised
    ELSE IF ~FracLess(JNum(Thousand), time_ns) THEN Return(TimeText(time_ns, 1, "ns"))
    ELSE IF ~FracLess(JNum(Million), time_ns) THEN Return(TimeText(time_ns, Thousand, "us"))
    ELSE IF ~FracLess(JNum(Billion), time_ns) THEN Return(TimeText(time_ns, Million, "ms"))
    ELSE Return(TimeText(time_ns, Billion, "s"))

format_time(time_ns) ==
    IF time_ns.kind # "num" THEN Raised
    ELSE IF FracLess(time_ns, JNum(Thousand)) THEN Return(TimeText(time_ns, 1, "ns"))
    ELSE IF FracLess(time_ns, JNum(Million)) THEN Return(TimeText(time_ns, Thousand, "us"))
    ELSE IF FracLess(time_ns, JNum(Billion)) THEN Return(TimeText(time_ns, Million, "ms"))
    ELSE Return(TimeText(time_ns, Billion, "s"))

\* ------------------------------------------------------------ categorize_benchmarks

\* The categories declared with Config before Network.
CategoryOrder_ConfigSecond == <<"Core", "Config", "Network", "Memory", "Other">>

CategoryOrder == <<"Core", "Network", "Config", "Memory", "Other">>

CategoryNames == {CategoryOrder[i] : i \in 1..Len(CategoryOrder)}

EmptyCategories == [c \in CategoryNames |-> <<>>]

\* 'kw' in name
Contains(name, kw) == kw \in name.has

\* Classify with the Config rule tried before the Network rule.
Classify_ConfigFirst(name) ==
    IF Contains(name, "PlayerRegistry") THEN "Core"
    ELSE IF Contains(name, "Config") THEN "Config"
    ELSE IF Contains(name, "Protobuf") \/ Contains(name, "Batch")
            \/ Contains(name, "Serialization") THEN "Network"
    ELSE IF Contains(name, "Memory") THEN "Memory"
    ELSE "Other"

Classify(name) ==
    IF Contains(name, "PlayerRegistry") THEN "Core"
    ELSE IF Contains(name, "Protobuf") \/ Contains(name, "Batch")
            \/ Contains(name, "Serialization") THEN "Network"
    ELSE IF Contains(name, "Config") THEN "Config"
    ELSE IF Contains(name, "Memory") THEN "Memory"
    ELSE "Other"

\* CategorizeLoop without the final else: a record matching no rule is dropped.
RECURSIVE CategorizeLoop_NoElse(_, _, _)
CategorizeLoop_NoElse(items, i, categories) ==
    IF i > Len(items) THEN Return(categories)
    ELSE LET benchmark == items[i]
             name == Get(benchmark.name, JStr({}))
         IN  IF name.kind # "str" THEN Raised
             ELSE IF Classify(name) = "Other"
                  THEN CategorizeLoop_NoElse(items, i + 1, categories)
                  ELSE CategorizeLoop_NoElse(items, i + 1,
                         [categories EXCEPT ![Classify(name)] = Append(@, benchmark)])

RECURSIVE CategorizeLoop(_, _, _)
CategorizeLoop(items, i, categories) ==
    IF i > Len(items) THEN Return(categories)
    ELSE LET benchmark == items[i]
             name == Get(benchmark.name, JStr({}))
         IN  IF name.kind # "str" THEN Raised
             ELSE CategorizeLoop(items, i + 1,
                    [categories EXCEPT ![Classify(name)] = Append(@, benchmark)])

categorize_benchmarks(data) ==
    IF data.kind # "dict" THEN Raised
    ELSE LET benchmarks == Get(data.benchmarks, JList(<<>>))
         IN  IF benchmarks.kind # "list" THEN Raised
             ELSE CategorizeLoop(benchmarks.items, 1, EmptyCategories)

\* ------------------------------------------------------------ generate_summary_stats

\* sorted(...): a stable ascending sort of [key, item] pairs by key.
RECURSIVE InsertSorted(_, _)
InsertSorted(x, s) ==
    IF s = <<>> THEN <<x>>
    ELSE IF FracLess(x.key, Head(s).key) THEN <<x>> \o s
    ELSE <<Head(s)>> \o InsertSorted(x, Tail(s))

RECURSIVE Sorted(_)
Sorted(s) ==
    IF s = <<>> THEN <<>>
    ELSE InsertSorted(s[Len(s)], Sorted(SubSeq(s, 1, Len(s) - 1)))

\* sorted(times)
SortedTimes(times) ==
    LET keyed == Sorted([i \in 1..Len(times) |-> [key |-> times[i], item |-> times[i]]])
    IN  [i \in 1..Len(keyed) |-> keyed[i].item]

mean(times) == FracDiv(FracSum(times), Len(times))

\* median returning the upper of the two middle elements of an even count.
median_High(times) ==
    LET data == SortedTimes(times)
        n == Len(data)
    IN  data[n \div 2 + 1]

median(times) ==
    LET data == SortedTimes(times)
        n == Len(data)
    IN  IF n % 2 = 1 THEN data[n \div 2 + 1]
        ELSE FracDiv(FracAdd(data[n \div 2], data[n \div 2 + 1]), 2)

RECURSIVE SeqMin(_)
SeqMin(s) ==
    IF Len(s) = 1 THEN s[1]
    ELSE LET m == SeqMin(Tail(s)) IN IF FracLess(m, s[1]) THEN m ELSE s[1]

RECURSIVE SeqMax(_)
SeqMax(s) ==
    IF Len(s) = 1 THEN s[1]
    ELSE LET m == SeqMax(Tail(s)) IN IF FracLess(s[1], m) THEN m ELSE s[1]

RealTime(b) == Get(b.real_time, JNum(0))

EmptyStats == [kind |-> "empty"]

generate_summary_stats(benchmarks) ==
    IF benchmarks = <<>> THEN Return(EmptyStats)
    ELSE LET times == [i \in 1..Len(benchmarks) |-> RealTime(benchmarks[i])]
         IN  IF \E i \in 1..Len(times) : times[i].kind # "num" THEN Raised
             ELSE Return([kind |-> "stats",
                          count |-> Len(benchmarks),
                          avg_time |-> mean(times),
                          median_time |-> median(times),
                          min_time |-> SeqMin(times),
                          max_time |-> SeqMax(times),
                          total_tests |-> Len(benchmarks)])

\* ------------------------------------------------------------ generate_html_report

TenMillion == 10000000

\* The document returned when no data is loaded (line 101).
NoDataDoc == [kind |-> "nodata"]

\* name default of a table row (line 295)
UnknownName == [kind |-> "str", has |-> {}, text |-> "Unknown"]

time_class(real_time) ==
    IF FracLess(real_time, JNum(Million)) THEN "good"
    ELSE IF FracLess(real_time, JNum(TenMillion)) THEN "warning"
    ELSE "danger"

\* One <tr> of a category table (lines 295-315).
RenderRow(benchmark) ==
    LET name == Get(benchmark.name, UnknownName)
        real_time == Get(benchmark.real_time, JNum(0))
        cpu_time == Get(benchmark.cpu_time, JNum(0))
        iterations == Get(benchmark.iterations, JNum(0))
        items_per_sec == Get(benchmark.items_per_second, JNum(0))
    IN  IF items_per_sec.kind # "num" \/ real_time.kind # "num"
           \/ cpu_time.kind # "num" \/ iterations.kind # "num"
        THEN Raised
        ELSE Return([name |-> name,
                     time_class |-> time_class(real_time),
                     real_time |-> format_time(real_time).val,
                     cpu_time |-> format_time(cpu_time).val,
                     iterations |-> iterations,
                     throughput |-> IF FracLess(JNum(0), items_per_sec)
                                    THEN [kind |-> "text", value |-> items_per_sec,
                                          divisor |-> 1, unit |-> "items/sec"]
                                    ELSE [kind |-> "text", unit |-> "N/A"]])

\* The table rows taken in input order, without the sort.
SortedBenchmarks_InputOrder(benchmarks) == benchmarks

\* sorted(benchmarks, key=lambda x: x.get('real_time', 0))
SortedBenchmarks(benchmarks) ==
    LET keyed == Sorted([i \in 1..Len(benchmarks) |->
                            [key |-> RealTime(benchmarks[i]), item |-> benchmarks[i]]])
    IN  [i \in 1..Len(keyed) |-> keyed[i].item]

\* One category section (lines 256-321).
RenderSection(category_name, benchmarks) ==
    LET stats == generate_summary_stats(benchmarks)
    IN  IF ~stats.ok THEN Raised
        ELSE LET ordered == SortedBenchmarks(benchmarks)
                 rows == [i \in 1..Len(ordered) |-> RenderRow(ordered[i])]
             IN  IF \E i \in 1..Len(rows) : ~rows[i].ok THEN Raised
                 ELSE Return([category |-> category_name,
                              count |-> stats.val.count,
                              avg_time |-> format_time(stats.val.avg_time).val,
                              min_time |-> format_time(stats.val.min_time).val,
                              max_time |-> format_time(stats.val.max_time).val,
                              rows |-> [i \in 1..Len(rows) |-> rows[i].val]])

\* for category_name, benchmarks in categories.items() (lines 252-321)
RECURSIVE RenderSections(_, _, _)
RenderSections(categories, i, sections) ==
    IF i > Len(CategoryOrder) THEN Return(sections)
    ELSE LET category_name == CategoryOrder[i]
             benchmarks == categories[category_name]
         IN  IF benchmarks = <<>> THEN RenderSections(categories, i + 1, sections)
             ELSE LET section == RenderSection(category_name, benchmarks)
                  IN  IF ~section.ok THEN Raised
                      ELSE RenderSections(categories, i + 1,
                                          Append(sections, section.val))

generate_html_report(data) ==
    IF ~Truthy(data) THEN Return(NoDataDoc)
    ELSE LET categories == categorize_benchmarks(data)
         IN  IF ~categories.ok THEN Raised
             ELSE IF Get(data.context, [kind |-> "dict"]).kind # "dict" THEN Raised
             ELSE LET sections == RenderSections(categories.val, 1, <<>>)
                  IN  IF ~sections.ok THEN Raised
                      ELSE Return([kind |-> "report",
                                   total |-> Len(Get(data.benchmarks, JList(<<>>)).items),
                                   sections |-> sections.val])

\* ------------------------------------------------------------ state

VARIABLES
    pc,            \* position of the invocation: main, load, render, open, write, exit;
                   \* or call / returned when a single function is applied
    inputFile,     \* the input source on disk
    outputFile,    \* the output destination on disk
    outputBefore,  \* the output destination as the invocation found it
    data,          \* self.data
    html,          \* html_content of generate_report
    result,        \* what generate_report returned
    status,        \* what main returned (-1 while it runs)
    steps,         \* the steps taken so far, each with its outcome
    stdout,        \* the messages printed
    arg,           \* the argument of a function applied on its own
    ret            \* its outcome

vars == <<pc, inputFile, outputFile, outputBefore, data, html, result, status,
          steps, stdout, arg, ret>>

None == [kind |-> "none"]

\* ------------------------------------------------------------ inputs

MaxPipelineLen == 2

MaxCatLen == 2

MaxStatLen == 4

MaxTime == 3

MaxRenderLen == 3

MaxRenderTime == 2

MaxDelta == 8

SeqsUpTo(S, n) == UNION {[1..k -> S] : k \in 0..n}

Keywords == {"PlayerRegistry", "Protobuf", "Batch", "Serialization", "Config", "Memory"}

NamedRecord(name, real_time) == Benchmark(name, real_time, Absent, Absent, Absent)

\* Records of an invocation: two well-formed ones and one ill-typed in each
\* of name, real_time and iterations.
PipelineRecords ==
    {NamedRecord(JStr({"PlayerRegistry"}), JNum(2)),
     NamedRecord(JStr({}), JNum(1)),
     NamedRecord(JNull, JNum(1)),
     NamedRecord(JStr({"Memory"}), JStr({})),
     Benchmark(JStr({"Config"}), JNum(1), Absent, JStr({}), Absent)}

PipelineData ==
    {JNull, JNum(0), JNum(1), JList(<<>>), JList(<<JNum(1)>>),
     JData(Absent, Absent), JData(Absent, [kind |-> "dict"]),
     JData(JNum(1), Absent), JData(JList(<<>>), JList(<<>>))}
    \cup {JData(JList(items), Absent) : items \in SeqsUpTo(PipelineRecords, MaxPipelineLen)}

InputFiles ==
    {[kind |-> "missing"], [kind |-> "unreadable"], [kind |-> "unparseable"]}
    \cup {[kind |-> "json", value |-> v] : v \in PipelineData}

OldContent == [kind |-> "old"]

OutputFiles == {[kind |-> "absent"], [kind |-> "file", content |-> OldContent]}

\* ------------------------------------------------------------ the invocation

\* Path(args.input).exists()
Exists(file) == file.kind # "missing"

\* open(self.input_file) and json.load(f), as load_data sees them.
ReadJson(file) == IF file.kind = "json" THEN Return(file.value) ELSE Raised

Step(name, ok) == [step |-> name, ok |-> ok]

Init ==
    /\ pc = "main"
    /\ inputFile \in InputFiles
    /\ outputFile \in OutputFiles
    /\ outputBefore = outputFile
    /\ data = JNull
    /\ html = None
    /\ result = "none"
    /\ status = -1
    /\ steps = <<>>
    /\ stdout = <<>>
    /\ arg = None
    /\ ret = None

\* Main returning 0 from the missing-input branch.
Main_MissingReturnsZero ==
    /\ pc = "main"
    /\ IF ~Exists(inputFile)
       THEN /\ stdout' = stdout \o <<"input_missing", "run_benchmarks_first">>
            /\ status' = 0
            /\ pc' = "exit"
       ELSE /\ pc' = "load"
            /\ UNCHANGED <<stdout, status>>
    /\ UNCHANGED <<inputFile, outputFile, outputBefore, data, html, result, steps, arg, ret>>

\* main, lines 353-371: the existence check.
Main ==
    /\ pc = "main"
    /\ IF ~Exists(inputFile)
       THEN /\ stdout' = stdout \o <<"input_missing", "run_benchmarks_first">>
            /\ status' = 1
            /\ pc' = "exit"
       ELSE /\ pc' = "load"
            /\ UNCHANGED <<stdout, status>>
    /\ UNCHANGED <<inputFile, outputFile, outputBefore, data, html, result, steps, arg, ret>>

\* load_data, and generate_report's return on its failure (lines 337-338).
LoadData ==
    /\ pc = "load"
    /\ LET loaded == ReadJson(inputFile)
       IN  IF loaded.ok
           THEN /\ data' = loaded.val
                /\ steps' = Append(steps, Step("load", TRUE))
                /\ pc' = "render"
                /\ UNCHANGED <<stdout, result, status>>
           ELSE /\ stdout' = Append(stdout, "load_error")
                /\ steps' = Append(steps, Step("load", FALSE))
                /\ result' = "False"
                /\ status' = 1
                /\ pc' = "exit"
                /\ UNCHANGED data
    /\ UNCHANGED <<inputFile, outputFile, outputBefore, html, arg, ret>>

\* Render with the output opened before the document is built, as if the
\* call were made inside the with block.
Render_InsideOpen ==
    /\ pc = "render"
    /\ outputFile' = [kind |-> "file", content |-> [kind |-> "empty"]]
    /\ LET rendered == generate_html_report(data)
       IN  IF rendered.ok
           THEN /\ html' = rendered.val
                /\ steps' = Append(steps, Step("render", TRUE))
                /\ pc' = "open"
                /\ UNCHANGED <<stdout, result, status>>
           ELSE /\ stdout' = Append(stdout, "report_failed")
                /\ steps' = Append(steps, Step("render", FALSE))
                /\ result' = "False"
                /\ status' = 1
                /\ pc' = "exit"
                /\ UNCHANGED html
    /\ UNCHANGED <<inputFile, outputBefore, data, arg, ret>>

\* html_content = self.generate_html_report(), inside the try (lines 340-341, 349-351).
Render ==
    /\ pc = "render"
    /\ LET rendered == generate_html_report(data)
       IN  IF rendered.ok
           THEN /\ html' = rendered.val
                /\ steps' = Append(steps, Step("render", TRUE))
                /\ pc' = "open"
                /\ UNCHANGED <<stdout, result, status>>
           ELSE /\ stdout' = Append(stdout, "report_failed")
                /\ steps' = Append(steps, Step("render", FALSE))
                /\ result' = "False"
                /\ status' = 1
                /\ pc' = "exit"
                /\ UNCHANGED html
    /\ UNCHANGED <<inputFile, outputFile, outputBefore, data, arg, ret>>

\* open(self.output_file, 'w') (line 343): creates or truncates, or fails.
OpenOutput ==
    /\ pc = "open"
    /\ \E opened \in BOOLEAN :
         IF opened
         THEN /\ outputFile' = [kind |-> "file", content |-> [kind |-> "empty"]]
              /\ steps' = Append(steps, Step("open", TRUE))
              /\ pc' = "write"
              /\ UNCHANGED <<stdout, result, status>>
         ELSE /\ stdout' = Append(stdout, "report_failed")
              /\ steps' = Append(steps, Step("open", FALSE))
              /\ result' = "False"
              /\ status' = 1
              /\ pc' = "exit"
              /\ UNCHANGED outputFile
    /\ UNCHANGED <<inputFile, outputBefore, data, html, arg, ret>>

\* WriteOutput with a failed write swallowed: the report is announced and
\* True returned all the same.
WriteOutput_FailureSwallowed ==
    /\ pc = "write"
    /\ \E written \in BOOLEAN :
         IF written
         THEN outputFile' = [kind |-> "file", content |-> html]
         ELSE outputFile' \in {[kind |-> "file", content |-> [kind |-> "empty"]],
                               [kind |-> "file", content |-> [kind |-> "partial"]]}
    /\ stdout' = stdout \o <<"report_generated", "open_in_browser">>
    /\ steps' = Append(steps, Step("write", outputFile' = [kind |-> "file", content |-> html]))
    /\ result' = "True"
    /\ status' = 0
    /\ pc' = "exit"
    /\ UNCHANGED <<inputFile, outputBefore, data, html, arg, ret>>

\* f.write(html_content) and the close of the with block (lines 344-347),
\* then main's return (lines 372-376).
WriteOutput ==
    /\ pc = "write"
    /\ \E written \in BOOLEAN :
         IF written
         THEN /\ outputFile' = [kind |-> "file", content |-> html]
              /\ stdout' = stdout \o <<"report_generated", "open_in_browser">>
              /\ steps' = Append(steps, Step("write", TRUE))
              /\ result' = "True"
              /\ status' = 0
         ELSE /\ outputFile' \in {[kind |-> "file", content |-> [kind |-> "empty"]],
                                  [kind |-> "file", content |-> [kind |-> "partial"]]}
              /\ stdout' = Append(stdout, "report_failed")
              /\ steps' = Append(steps, Step("write", FALSE))
              /\ result' = "False"
              /\ status' = 1
    /\ pc' = "exit"
    /\ UNCHANGED <<inputFile, outputBefore, data, html, arg, ret>>

Next == Main \/ LoadData \/ Render \/ OpenOutput \/ WriteOutput

Spec == Init /\ [][Next]_vars

\* ------------------------------------------------------------ single functions

\* The invocation's variables while a function is applied on its own.
Idle ==
    /\ inputFile = [kind |-> "missing"]
    /\ outputFile = [kind |-> "absent"]
    /\ outputBefore = outputFile
    /\ data = JNull
    /\ html = None
    /\ result = "none"
    /\ status = -1
    /\ steps = <<>>
    /\ stdout = <<>>

IdleUnchanged ==
    UNCHANGED <<inputFile, outputFile, outputBefore, data, html, result, status,
                steps, stdout>>

\* Every name over the classifier's keywords, a record with no name, and a
\* name that is not a string.
NameValues == {JStr(kws) : kws \in SUBSET Keywords} \cup {Absent, JNull}

CategorizeRecords == {NamedRecord(name, Absent) : name \in NameValues}

CategorizeInputs ==
    {JData(JList(items), Absent) : items \in SeqsUpTo(CategorizeRecords, MaxCatLen)}
    \cup {JData(Absent, Absent), JData(JNum(1), Absent), JList(<<>>)}

InitCategorize ==
    /\ pc = "call"
    /\ arg \in CategorizeInputs
    /\ ret = None
    /\ Idle

CallCategorize ==
    /\ pc = "call"
    /\ ret' = categorize_benchmarks(arg)
    /\ pc' = "returned"
    /\ UNCHANGED arg
    /\ IdleUnchanged

SpecCategorize == InitCategorize /\ [][CallCategorize]_vars

TimeValues == {JNum(n) : n \in 0..MaxTime} \cup {Absent}

StatsRecords == {NamedRecord(Absent, t) : t \in TimeValues \cup {JStr({})}}

InitStats ==
    /\ pc = "call"
    /\ arg \in SeqsUpTo(StatsRecords, MaxStatLen)
    /\ ret = None
    /\ Idle

CallStats ==
    /\ pc = "call"
    /\ ret' = generate_summary_stats(arg)
    /\ pc' = "returned"
    /\ UNCHANGED arg
    /\ IdleUnchanged

SpecStats == InitStats /\ [][CallStats]_vars

\* Durations at and around every threshold, whole and half nanoseconds.
Durations ==
    {Frac(t * d + k, d) : t \in {0, Thousand, Million, Billion}, d \in {1, 2},
                          k \in -MaxDelta..MaxDelta}

InitFormat ==
    /\ pc = "call"
    /\ arg \in {x \in Durations : x.num >= 0}
    /\ ret = None
    /\ Idle

CallFormat ==
    /\ pc = "call"
    /\ ret' = format_time(arg)
    /\ pc' = "returned"
    /\ UNCHANGED arg
    /\ IdleUnchanged

SpecFormat == InitFormat /\ [][CallFormat]_vars

\* One name for each category, the last a record with no name.
RenderNames ==
    {JStr({"PlayerRegistry", "Config"}), JStr({"Batch"}), JStr({"Config", "Memory"}),
     JStr({"Memory"}), Absent}

RenderRecords ==
    {NamedRecord(name, t) : name \in RenderNames,
                            t \in {JNum(n) : n \in 1..MaxRenderTime} \cup {Absent}}

InitRender ==
    /\ pc = "call"
    /\ arg \in {JData(JList(items), Absent) : items \in SeqsUpTo(RenderRecords, MaxRenderLen)}
               \cup {JData(Absent, Absent), JData(Absent, [kind |-> "dict"])}
    /\ ret = None
    /\ Idle

CallRender ==
    /\ pc = "call"
    /\ ret' = generate_html_report(arg)
    /\ pc' = "returned"
    /\ UNCHANGED arg
    /\ IdleUnchanged

SpecRender == InitRender /\ [][CallRender]_vars

\* ------------------------------------------------------------ properties

\* Number of positions of seq holding x.
Count(x, seq) == Cardinality({i \in DOMAIN seq : seq[i] = x})

RECURSIVE SumOver(_, _)
SumOver(f, S) ==
    IF S = {} THEN 0 ELSE LET x == CHOOSE y \in S : TRUE IN f[x] + SumOver(f, S \ {x})

\* The records of a well-formed results mapping: 'benchmarks' is a list (or
\* absent) of records whose names are strings (or absent).
RecordsOf(d) == Get(d.benchmarks, JList(<<>>)).items

IsRecordList(d) ==
    /\ d.kind = "dict"
    /\ Get(d.benchmarks, JList(<<>>)).kind = "list"
    /\ \A i \in DOMAIN RecordsOf(d) : Get(RecordsOf(d)[i].name, JStr({})).kind = "str"

\* C1: categorize_benchmarks puts every input record in exactly one of the
\* five category lists: for every record, its occurrences over the five
\* lists are as many as in the input, so the category counts sum to the
\* number of input records; and it returns for every list of records.
C1_Partition ==
    pc = "returned" =>
        /\ IsRecordList(arg) => ret.ok
        /\ ret.ok =>
             /\ DOMAIN ret.val = {"Core", "Network", "Config", "Memory", "Other"}
             /\ SumOver([c \in DOMAIN ret.val |-> Len(ret.val[c])], DOMAIN ret.val)
                  = Len(RecordsOf(arg))
             /\ \A i \in DOMAIN RecordsOf(arg) :
                  LET r == RecordsOf(arg)[i]
                  IN  SumOver([c \in DOMAIN ret.val |-> Count(r, ret.val[c])],
                              DOMAIN ret.val) = Count(r, RecordsOf(arg))

\* Two equal records matching no rule, both kept.
C1_Witness ==
    /\ pc = "returned"
    /\ ret.ok
    /\ arg.kind = "dict"
    /\ Len(RecordsOf(arg)) = 2
    /\ RecordsOf(arg)[1] = RecordsOf(arg)[2]
    /\ Len(ret.val["Other"]) = 2

\* 'kw' occurs in the record's name; a record with no name contains nothing.
NameHas(r, kw) == r.name.kind = "str" /\ kw \in r.name.has

\* The category the priority order gives a record.
PriorityCategory(r) ==
    CASE NameHas(r, "PlayerRegistry") -> "Core"
      [] /\ ~NameHas(r, "PlayerRegistry")
         /\ (NameHas(r, "Protobuf") \/ NameHas(r, "Batch") \/ NameHas(r, "Serialization"))
           -> "Network"
      [] /\ ~NameHas(r, "PlayerRegistry")
         /\ ~(NameHas(r, "Protobuf") \/ NameHas(r, "Batch") \/ NameHas(r, "Serialization"))
         /\ NameHas(r, "Config")
           -> "Config"
      [] /\ ~NameHas(r, "PlayerRegistry")
         /\ ~(NameHas(r, "Protobuf") \/ NameHas(r, "Batch") \/ NameHas(r, "Serialization"))
         /\ ~NameHas(r, "Config")
         /\ NameHas(r, "Memory")
           -> "Memory"
      [] OTHER -> "Other"

\* C2: classification is first-match-wins in the order Core, Network,
\* Config, Memory, Other: every record of a category list is the record the
\* priority order sends there, a record with no name being Other.
C2_FirstMatchWins ==
    (pc = "returned" /\ ret.ok) =>
        \A c \in DOMAIN ret.val : \A i \in DOMAIN ret.val[c] :
            /\ PriorityCategory(ret.val[c][i]) = c
            /\ ret.val[c][i].name.kind = "absent" => c = "Other"

\* A name matching the Core, Config and Memory rules is Core, and one
\* matching the Network and Config rules is Network.
C2_Witness ==
    /\ pc = "returned"
    /\ ret.ok
    /\ NamedRecord(JStr({"PlayerRegistry", "Config", "Memory"}), Absent)
         \in {ret.val["Core"][i] : i \in DOMAIN ret.val["Core"]}
    /\ NamedRecord(JStr({"Serialization", "Config"}), Absent)
         \in {ret.val["Network"][i] : i \in DOMAIN ret.val["Network"]}

\* The real_time of a record as an integer, 0 when it is absent.
TimeOf(r) == IF r.real_time.kind = "absent" THEN 0 ELSE r.real_time.num

AllNumeric(records) ==
    \A i \in DOMAIN records : records[i].real_time.kind \in {"absent", "num"}

\* The k-th smallest of a sequence of integers.
Ranked(ts, k) ==
    CHOOSE v \in {ts[i] : i \in DOMAIN ts} :
        /\ Cardinality({i \in DOMAIN ts : ts[i] < v}) < k
        /\ Cardinality({i \in DOMAIN ts : ts[i] <= v}) >= k

\* The fraction q equals a/b.
FracIs(q, a, b) == q.kind = "num" /\ q.den > 0 /\ q.num * b = a * q.den

\* C5: for a non-empty record list generate_summary_stats returns count = the
\* length, min_time and max_time = the extrema of real_time, avg_time = the
\* arithmetic mean and median_time = the middle of the sorted values (the
\* average of the two middle ones for an even count), a record lacking
\* real_time counting as 0; for the empty list it returns an empty summary.
C5_SummaryStats ==
    pc = "returned" =>
        /\ arg = <<>> => ret = Return([kind |-> "empty"])
        /\ (arg # <<>> /\ AllNumeric(arg)) =>
             LET ts == [i \in DOMAIN arg |-> TimeOf(arg[i])]
                 n == Len(arg)
                 st == ret.val
             IN  /\ ret.ok
                 /\ st.count = n
                 /\ \E i \in DOMAIN ts : FracIs(st.min_time, ts[i], 1)
                 /\ \A i \in DOMAIN ts : st.min_time.num <= ts[i] * st.min_time.den
                 /\ \E i \in DOMAIN ts : FracIs(st.max_time, ts[i], 1)
                 /\ \A i \in DOMAIN ts : st.max_time.num >= ts[i] * st.max_time.den
                 /\ FracIs(st.avg_time, SumOver(ts, DOMAIN ts), n)
                 /\ IF n % 2 = 1
                    THEN FracIs(st.median_time, Ranked(ts, (n + 1) \div 2), 1)
                    ELSE FracIs(st.median_time,
                                Ranked(ts, n \div 2) + Ranked(ts, n \div 2 + 1), 2)

\* Four records, unsorted, one lacking real_time: the median is the
\* average 3/2 of the middle values 1 and 2 and the mean is 6/4.
C5_Witness ==
    /\ pc = "returned"
    /\ ret.ok
    /\ Len(arg) = 4
    /\ [i \in 1..4 |-> arg[i].real_time] = <<JNum(3), Absent, JNum(2), JNum(1)>>
    /\ ret.val.median_time = Frac(3, 2)
    /\ ret.val.avg_time = Frac(3, 2)
    /\ ret.val.min_time = JNum(0)
    /\ ret.val.max_time = JNum(3)

\* C6: for every non-negative duration format_time is defined and selects
\* exactly one tier: ns and divisor 1 below 1,000; us and divisor 1,000 from
\* 1,000 and below 1,000,000; ms and divisor 1,000,000 from 1,000,000 and
\* below 1,000,000,000; s and divisor 1,000,000,000 from there on.  The
\* divisor is never zero.
C6_UnitTiers ==
    pc = "returned" =>
        /\ ret.ok
        /\ ret.val.value = arg
        /\ ret.val.divisor # 0
        /\ LET n == arg.num
               d == arg.den
               tier == <<ret.val.unit, ret.val.divisor>>
           IN  /\ n < 1000 * d => tier = <<"ns", 1>>
               /\ (n >= 1000 * d /\ n < 1000000 * d) => tier = <<"us", 1000>>
               /\ (n >= 1000000 * d /\ n < 1000000000 * d) => tier = <<"ms", 1000000>>
               /\ n >= 1000000000 * d => tier = <<"s", 1000000000>>

\* A duration of exactly 1,000,000,000 ns is formatted in seconds.
C6_Witness ==
    /\ pc = "returned"
    /\ arg = JNum(1000000000)
    /\ ret.ok
    /\ ret.val.unit = "s"
    /\ ret.val.divisor = 1000000000

\* The sections of a rendered document; the "No data available" document
\* has none.
SectionsOf(doc) == IF doc.kind = "report" THEN doc.sections ELSE <<>>

\* The position of a category in the fixed order.
OrderIndex(c) ==
    CHOOSE i \in 1..5 : <<"Core", "Network", "Config", "Memory", "Other">>[i] = c

\* C7: the rendered document has one section for each non-empty category,
\* none for an empty one, and the sections are in the order Core, Network,
\* Config, Memory, Other whatever the order of the input records.
C7_SectionsInOrder ==
    pc = "returned" =>
        /\ ret.ok
        /\ LET secs == SectionsOf(ret.val)
               rs == RecordsOf(arg)
           IN  /\ {secs[i].category : i \in DOMAIN secs}
                    = {PriorityCategory(rs[j]) : j \in DOMAIN rs}
               /\ \A i, j \in DOMAIN secs :
                    i < j => OrderIndex(secs[i].category) < OrderIndex(secs[j].category)
               /\ \A i \in DOMAIN secs : secs[i].rows # <<>>

\* Records given in the order Other, Config, Network are rendered as the
\* sections Network, Config, Other.
C7_Witness ==
    /\ pc = "returned"
    /\ ret.ok
    /\ Len(RecordsOf(arg)) = 3
    /\ [i \in 1..3 |-> PriorityCategory(RecordsOf(arg)[i])] = <<"Other", "Config", "Network">>
    /\ [i \in DOMAIN SectionsOf(ret.val) |-> SectionsOf(ret.val)[i].category]
         = <<"Network", "Config", "Other">>

\* The name and time a record's table row shows.
RowKey(r) ==
    <<IF r.name.kind = "absent" THEN "Unknown" ELSE "named", r.name, TimeOf(r)>>

ShownKey(row) ==
    <<IF "text" \in DOMAIN row.name THEN row.name.text ELSE "named",
      IF "text" \in DOMAIN row.name THEN Absent ELSE row.name,
      row.real_time.value.num>>

\* C8: in each rendered section the table has exactly one row for every
\* record of that category, and consecutive rows are in ascending order of
\* real_time, a record lacking real_time sorting as 0.
C8_RowsAscending ==
    (pc = "returned" /\ ret.ok) =>
        \A k \in DOMAIN SectionsOf(ret.val) :
            LET sec == SectionsOf(ret.val)[k]
                rs == RecordsOf(arg)
                members == {j \in DOMAIN rs : PriorityCategory(rs[j]) = sec.category}
            IN  /\ Len(sec.rows) = Cardinality(members)
                /\ \A j \in members :
                     Cardinality({i \in DOMAIN sec.rows : ShownKey(sec.rows[i]) = RowKey(rs[j])})
                       = Cardinality({m \in members : RowKey(rs[m]) = RowKey(rs[j])})
                /\ \A i \in DOMAIN sec.rows :
                     /\ sec.rows[i].real_time.value.den = 1
                     /\ i < Len(sec.rows) =>
                          sec.rows[i].real_time.value.num
                            <= sec.rows[i + 1].real_time.value.num

\* Three records of one category given in descending order of real_time,
\* the last lacking it, are listed as 0, 1, 2.
C8_Witness ==
    /\ pc = "returned"
    /\ ret.ok
    /\ Len(RecordsOf(arg)) = 3
    /\ [i \in 1..3 |-> RecordsOf(arg)[i].real_time] = <<JNum(2), JNum(1), Absent>>
    /\ Len(SectionsOf(ret.val)) = 1
    /\ [i \in 1..3 |-> SectionsOf(ret.val)[1].rows[i].real_time.value.num] = <<0, 1, 2>>

\* The names of the steps taken, and whether a step was taken and succeeded.
StepNames == [i \in DOMAIN steps |-> steps[i].step]

Succeeded(name) == \E i \in DOMAIN steps : steps[i] = [step |-> name, ok |-> TRUE]

Failed(name) == \E i \in DOMAIN steps : steps[i] = [step |-> name, ok |-> FALSE]

Printed(msg) == \E i \in DOMAIN stdout : stdout[i] = msg

\* C3: with the input source missing the invocation reports a failure and
\* returns a non-zero status, and no step opens the output destination: it
\* is neither created nor overwritten.
C3_MissingInput ==
    inputFile.kind = "missing" =>
        /\ \A i \in DOMAIN steps : steps[i].step \notin {"open", "write"}
        /\ outputFile = outputBefore
        /\ pc \in {"main", "exit"}
        /\ pc = "exit" =>
             /\ status # 0
             /\ stdout # <<>>
             /\ ~Printed("report_generated")

\* The input is missing, the invocation is over and the report of an
\* earlier run is still in place.
C3_Witness ==
    /\ inputFile.kind = "missing"
    /\ pc = "exit"
    /\ status = 1
    /\ outputFile = [kind |-> "file", content |-> OldContent]

\* The input exists and cannot be read, cannot be parsed, or parses to a
\* value that is no mapping with a list of benchmarks.
BadInput ==
    \/ inputFile.kind \in {"unreadable", "unparseable"}
    \/ /\ inputFile.kind = "json"
       /\ \/ inputFile.value.kind # "dict"
          \/ Get(inputFile.value.benchmarks, JList(<<>>)).kind # "list"

\* C4: with the input unreadable or malformed, report generation is aborted
\* with a failure: generate_report returns False, the status is non-zero, a
\* failure is printed and no document is written to the output destination.
\* (Whether the failure is signalled by load_data or only later is left
\* open here: the claim fails on the outcome.)
C4_BadInputAborts ==
    (BadInput /\ pc = "exit") =>
        /\ result = "False"
        /\ status # 0
        /\ Printed("load_error") \/ Printed("report_failed")
        /\ outputFile = outputBefore

\* C9: the invocation returns 0 exactly when the input was loaded, the
\* document rendered and the write completed, and 1 otherwise; a failed
\* step is the last one and no step is taken twice.
C9_StatusZeroIffWritten ==
    /\ pc # "exit" => status = -1
    /\ pc = "exit" =>
         /\ status \in {0, 1}
         /\ status = 0 <=>
              /\ Succeeded("load")
              /\ Succeeded("render")
              /\ Succeeded("write")
              /\ outputFile = [kind |-> "file", content |-> html]
    /\ \A i \in DOMAIN steps : ~steps[i].ok => (i = Len(steps) /\ pc = "exit" /\ status = 1)
    /\ \A i, j \in DOMAIN steps : steps[i].step = steps[j].step => i = j

\* A run that loaded, rendered a report with a section, and wrote it.
C9_Witness ==
    /\ pc = "exit"
    /\ status = 0
    /\ StepNames = <<"load", "render", "open", "write">>
    /\ html.kind = "report"
    /\ html.sections # <<>>
    /\ outputFile.content = html

\* C10: the steps are taken in the order load, render, open, write, so the
\* output destination is opened only after the document is rendered; a
\* failure raised while rendering ends the invocation with a failure and
\* leaves the output destination as it was.
C10_RenderBeforeOpen ==
    /\ \E n \in 0..4 : StepNames = SubSeq(<<"load", "render", "open", "write">>, 1, n)
    /\ outputFile # outputBefore => (Succeeded("render") /\ Succeeded("open"))
    /\ pc \in {"main", "load", "render"} => outputFile = outputBefore
    /\ Failed("render") =>
         /\ pc = "exit"
         /\ result = "False"
         /\ status = 1
         /\ outputFile = outputBefore

\* Aggregation raised on a real_time that is no number, after the records
\* were classified, and the earlier report is still in place.
C10_Witness ==
    /\ Failed("render")
    /\ pc = "exit"
    /\ data.kind = "dict"
    /\ categorize_benchmarks(data).ok
    /\ \E i \in DOMAIN RecordsOf(data) : RecordsOf(data)[i].real_time.kind = "str"
    /\ outputFile = [kind |-> "file", content |-> OldContent]

====
